---- MODULE Spec2Model ----
(***************************************************************************)
(* Model of the hosts-parser crate (src/src/lib.rs): the line parser       *)
(* HostsFileLine::from_string, the line renderer (Display), the document   *)
(* parser HostsFile::from_string and HostsFile::serialize.                 *)
(*                                                                         *)
(* A string is a sequence of one-character strings.  Option<T> is a        *)
(* sequence of length 0 (None) or 1 (Some(x)).  Result<T, ParseError> is   *)
(* [ok |-> TRUE, val |-> x] or [ok |-> FALSE, site |-> n], n the source    *)
(* line of lib.rs that produced the ParseError.                            *)
(***************************************************************************)
EXTENDS Integers, Sequences, FiniteSets, TLC

VARIABLES text, pc, ctor, line, doc, out, doc2

vars == <<text, pc, ctor, line, doc, out, doc2>>

----------------------------------------------------------------------------
(* Bounds of the input texts *)

\* longest text over the full alphabet (documents with line terminators)
MaxLen == 6
\* longest text over the single-line alphabet (one line, several tokens)
MaxLineLen == 8

Alphabet == {"a", "#", " ", "\n", "\r"}
LineAlphabet == {"a", "#", " "}

StringsOver(A, n) == UNION {[1..k -> A] : k \in 0..n}

Texts == StringsOver(Alphabet, MaxLen) \cup StringsOver(LineAlphabet, MaxLineLen)

----------------------------------------------------------------------------
(* Option and Result *)

None == <<>>
Some(x) == <<x>>
is_some(o) == o # <<>>
unwrap(o) == o[1]

Ok(v) == [ok |-> TRUE, val |-> v]
Err(n) == [ok |-> FALSE, site |-> n]

\* value of a result variable before the operation that sets it has run
Unset == [unset |-> TRUE]

----------------------------------------------------------------------------
(* std string functions used by the crate *)

\* char::is_whitespace on the characters of the alphabet
is_whitespace(c) == c \in {" ", "\n", "\r"}

RECURSIVE trim_start(_)
trim_start(s) ==
    IF s = <<>> THEN s
    ELSE IF is_whitespace(Head(s)) THEN trim_start(Tail(s)) ELSE s

RECURSIVE trim_end(_)
trim_end(s) ==
    IF s = <<>> THEN s
    ELSE IF is_whitespace(s[Len(s)]) THEN trim_end(SubSeq(s, 1, Len(s) - 1)) ELSE s

\* variant: only the leading whitespace is removed
trim_leading_only(s) == trim_start(s)

trim(s) == trim_end(trim_start(s))

\* length of the leading run of non-whitespace characters of s
RECURSIVE token_len(_)
token_len(s) ==
    IF s = <<>> \/ is_whitespace(Head(s)) THEN 0 ELSE 1 + token_len(Tail(s))

\* variant: str::split(' ')-like, every single whitespace character separates,
\* so adjacent separators give empty tokens
RECURSIVE split_on_each_space(_)
split_on_each_space(s) ==
    LET n == token_len(s) IN
    IF n = Len(s) THEN <<s>>
    ELSE <<SubSeq(s, 1, n)>> \o split_on_each_space(SubSeq(s, n + 2, Len(s)))

\* str::split_whitespace: the maximal runs of non-whitespace characters
RECURSIVE split_whitespace(_)
split_whitespace(s) ==
    LET t == trim_start(s) IN
    IF t = <<>> THEN <<>>
    ELSE LET n == token_len(t) IN
         <<SubSeq(t, 1, n)>> \o split_whitespace(SubSeq(t, n + 1, Len(t)))

\* [String]::join
RECURSIVE join(_, _)
join(parts, sep) ==
    IF parts = <<>> THEN <<>>
    ELSE IF Len(parts) = 1 THEN parts[1]
    ELSE parts[1] \o sep \o join(Tail(parts), sep)

\* position of the first "\n" of s, 0 when there is none
RECURSIVE find_newline(_)
find_newline(s) ==
    IF s = <<>> THEN 0
    ELSE IF Head(s) = "\n" THEN 1
    ELSE LET r == find_newline(Tail(s)) IN IF r = 0 THEN 0 ELSE r + 1

\* one item of str::lines: the "\n" and a "\r" right before it are stripped
strip_line_ending(l) ==
    IF l # <<>> /\ l[Len(l)] = "\n"
    THEN LET m == SubSeq(l, 1, Len(l) - 1) IN
         IF m # <<>> /\ m[Len(m)] = "\r" THEN SubSeq(m, 1, Len(m) - 1) ELSE m
    ELSE l

\* variant: str::split('\n')-like, the piece after the last "\n" is kept
\* even when it is empty
RECURSIVE lines_split_newline(_)
lines_split_newline(s) ==
    LET n == find_newline(s) IN
    IF n = 0 THEN <<s>>
    ELSE <<strip_line_ending(SubSeq(s, 1, n))>> \o lines_split_newline(SubSeq(s, n + 1, Len(s)))

\* str::lines
RECURSIVE lines(_)
lines(s) ==
    IF s = <<>> THEN <<>>
    ELSE LET n == find_newline(s) IN
         IF n = 0 THEN <<strip_line_ending(s)>>
         ELSE <<strip_line_ending(SubSeq(s, 1, n))>> \o lines(SubSeq(s, n + 1, Len(s)))

----------------------------------------------------------------------------
(* HostsFileLine *)

\* COMMENT_RE = ^#.* ; is_match is an unanchored search, so it holds exactly
\* when the haystack starts with '#'
COMMENT_RE_is_match(s) == s # <<>> /\ s[1] = "#"

from_empty == [is_empty |-> TRUE, comment |-> None, ip |-> None, hosts |-> None]

\* variant: the is_empty flag of from_empty is kept
from_comment_marked_empty(c) == [is_empty |-> TRUE, comment |-> Some(c), ip |-> None, hosts |-> None]

from_comment(c) == [is_empty |-> FALSE, comment |-> Some(c), ip |-> None, hosts |-> None]

\* variant: .filter in place of .take_while
RECURSIVE filter_not_comment(_)
filter_not_comment(ts) ==
    IF ts = <<>> THEN <<>>
    ELSE IF COMMENT_RE_is_match(Head(ts)) THEN filter_not_comment(Tail(ts))
    ELSE <<Head(ts)>> \o filter_not_comment(Tail(ts))

\* .take_while(|s| !COMMENT_RE.is_match(s))
RECURSIVE take_while_not_comment(_)
take_while_not_comment(ts) ==
    IF ts = <<>> \/ COMMENT_RE_is_match(Head(ts)) THEN <<>>
    ELSE <<Head(ts)>> \o take_while_not_comment(Tail(ts))

\* .skip_while(|s| !COMMENT_RE.is_match(s))
RECURSIVE skip_while_not_comment(_)
skip_while_not_comment(ts) ==
    IF ts = <<>> \/ COMMENT_RE_is_match(Head(ts)) THEN ts
    ELSE skip_while_not_comment(Tail(ts))

\* variant: without the hosts.is_empty() check
HostsFileLine_from_string_unchecked(l) ==
    LET trimmed == trim(l) IN
    IF trimmed = <<>> THEN Ok(from_empty)
    ELSE IF COMMENT_RE_is_match(trimmed) THEN Ok(from_comment(trimmed))
    ELSE LET slices == split_whitespace(trimmed) IN
         IF slices = <<>> THEN Err(83)
         ELSE LET ip0 == slices[1]
                  hosts0 == take_while_not_comment(Tail(slices))
                  comment0 == join(skip_while_not_comment(Tail(slices)), <<" ">>)
              IN Ok([is_empty |-> FALSE,
                     ip |-> Some(ip0),
                     hosts |-> Some(hosts0),
                     comment |-> IF comment0 = <<>> THEN None ELSE Some(comment0)])

HostsFileLine_from_string(l) ==
    LET trimmed == trim(l) IN
    IF trimmed = <<>> THEN Ok(from_empty)
    ELSE IF COMMENT_RE_is_match(trimmed) THEN Ok(from_comment(trimmed))
    ELSE LET slices == split_whitespace(trimmed) IN
         IF slices = <<>> THEN Err(83)
         ELSE LET ip0 == slices[1]
                  hosts0 == take_while_not_comment(Tail(slices))
                  comment0 == join(skip_while_not_comment(Tail(slices)), <<" ">>)
              IN IF hosts0 = <<>> THEN Err(90)
                 ELSE Ok([is_empty |-> FALSE,
                          ip |-> Some(ip0),
                          hosts |-> Some(hosts0),
                          comment |-> IF comment0 = <<>> THEN None ELSE Some(comment0)])

ip(l) == l.ip
hosts(l) == IF is_some(l.hosts) THEN unwrap(l.hosts) ELSE <<>>
comment(l) == l.comment
has_host(l) == is_some(l.ip)
has_comment(l) == is_some(l.comment)

\* keeps the Some items of a Vec<Option<String>> and unwraps them
RECURSIVE filter_some(_)
filter_some(ps) ==
    IF ps = <<>> THEN <<>>
    ELSE IF is_some(Head(ps)) THEN <<unwrap(Head(ps))>> \o filter_some(Tail(ps))
    ELSE filter_some(Tail(ps))

\* variant: the comment is pushed before the hosts
fmt_comment_first(l) ==
    LET hs == IF is_some(l.hosts)
              THEN [i \in 1..Len(unwrap(l.hosts)) |-> Some(unwrap(l.hosts)[i])]
              ELSE <<>>
        parts == <<l.ip>> \o <<l.comment>> \o hs
    IN join(filter_some(parts), <<" ">>)

\* variant: the comment is not pushed for a line that has an address
fmt_without_comment(l) ==
    LET hs == IF is_some(l.hosts)
              THEN [i \in 1..Len(unwrap(l.hosts)) |-> Some(unwrap(l.hosts)[i])]
              ELSE <<>>
        parts == <<l.ip>> \o hs \o (IF is_some(l.ip) THEN <<>> ELSE <<l.comment>>)
    IN join(filter_some(parts), <<" ">>)

\* impl Display for HostsFileLine
fmt(l) ==
    LET hs == IF is_some(l.hosts)
              THEN [i \in 1..Len(unwrap(l.hosts)) |-> Some(unwrap(l.hosts)[i])]
              ELSE <<>>
        parts == <<l.ip>> \o hs \o <<l.comment>>
    IN join(filter_some(parts), <<" ">>)

----------------------------------------------------------------------------
(* HostsFile *)

\* variant: best effort, the lines that fail to parse are left out
RECURSIVE collect_skipping_errors(_)
collect_skipping_errors(ls) ==
    IF ls = <<>> THEN Ok(<<>>)
    ELSE LET r == HostsFileLine_from_string(Head(ls))
             rest == collect_skipping_errors(Tail(ls))
         IN IF r.ok THEN Ok(<<r.val>> \o rest.val) ELSE rest

\* .collect::<Result<Vec<HostsFileLine>, ParseError>>() over the parsed
\* lines: stops at the first Err and returns it alone
RECURSIVE collect(_)
collect(ls) ==
    IF ls = <<>> THEN Ok(<<>>)
    ELSE LET r == HostsFileLine_from_string(Head(ls)) IN
         IF ~r.ok THEN r
         ELSE LET rest == collect(Tail(ls)) IN
              IF rest.ok THEN Ok(<<r.val>> \o rest.val) ELSE rest

HostsFile_from_string(s) ==
    LET r == collect(lines(s)) IN
    IF r.ok THEN Ok([lines |-> r.val]) ELSE r

\* variant: the lines are joined and no newline is appended
serialize_without_final_newline(d) ==
    join([i \in 1..Len(d.lines) |-> fmt(d.lines[i])], <<"\n">>)

serialize(d) ==
    join([i \in 1..Len(d.lines) |-> fmt(d.lines[i])], <<"\n">>) \o <<"\n">>

----------------------------------------------------------------------------
(* The operations a caller can apply to an input text *)

Init ==
    /\ text \in Texts
    /\ pc = "start"
    /\ ctor = "none"
    /\ line = Unset
    /\ doc = Unset
    /\ out = <<>>
    /\ doc2 = Unset

\* HostsFileLine::from_string(text)
ParseLine ==
    /\ pc = "start"
    /\ line' = HostsFileLine_from_string(text)
    /\ ctor' = "from_string"
    /\ pc' = "line"
    /\ UNCHANGED <<text, doc, out, doc2>>

\* HostsFileLine::from_empty()
FromEmpty ==
    /\ pc = "start"
    /\ line' = Ok(from_empty)
    /\ ctor' = "from_empty"
    /\ pc' = "line"
    /\ UNCHANGED <<text, doc, out, doc2>>

\* HostsFileLine::from_comment(text)
FromComment ==
    /\ pc = "start"
    /\ line' = Ok(from_comment(text))
    /\ ctor' = "from_comment"
    /\ pc' = "line"
    /\ UNCHANGED <<text, doc, out, doc2>>

\* format!("{}", line) on a line record
Render ==
    /\ pc = "line"
    /\ line.ok
    /\ out' = fmt(line.val)
    /\ pc' = "rendered"
    /\ UNCHANGED <<text, ctor, line, doc, doc2>>

\* text.parse::<HostsFile>()
ParseDocument ==
    /\ pc = "start"
    /\ doc' = HostsFile_from_string(text)
    /\ pc' = "doc"
    /\ UNCHANGED <<text, ctor, line, out, doc2>>

\* doc.serialize() on a parsed document
Serialize ==
    /\ pc = "doc"
    /\ doc.ok
    /\ out' = serialize(doc.val)
    /\ pc' = "serialized"
    /\ UNCHANGED <<text, ctor, line, doc, doc2>>

\* parsing the serialized text again
Reparse ==
    /\ pc = "serialized"
    /\ doc2' = HostsFile_from_string(out)
    /\ pc' = "reparsed"
    /\ UNCHANGED <<text, ctor, line, doc, out>>

Next ==
    \/ ParseLine
    \/ FromEmpty
    \/ FromComment
    \/ Render
    \/ ParseDocument
    \/ Serialize
    \/ Reparse

Spec == Init /\ [][Next]_vars

TypeOK ==
    /\ pc \in {"start", "line", "rendered", "doc", "serialized", "reparsed"}
    /\ ctor \in {"none", "from_string", "from_empty", "from_comment"}

----------------------------------------------------------------------------
(* Vocabulary of the properties, stated on character positions of the      *)
(* input rather than through the parser's own helpers                      *)

NonWsPos(s) == {i \in 1..Len(s) : ~is_whitespace(s[i])}
AllWhitespace(s) == NonWsPos(s) = {}
Min(S) == CHOOSE m \in S : \A x \in S : m <= x
Max(S) == CHOOSE m \in S : \A x \in S : m >= x

\* s without its leading and trailing whitespace
Trimmed(s) == IF AllWhitespace(s) THEN <<>> ELSE SubSeq(s, Min(NonWsPos(s)), Max(NonWsPos(s)))

\* the first non-whitespace character of s is '#'
StartsWithHash(s) == ~AllWhitespace(s) /\ s[Min(NonWsPos(s))] = "#"

\* positions where a whitespace-delimited token begins / ends
TokenStarts(s) == {i \in NonWsPos(s) : i = 1 \/ is_whitespace(s[i - 1])}
TokenEnds(s) == {i \in NonWsPos(s) : i = Len(s) \/ is_whitespace(s[i + 1])}
Kth(S, k) == CHOOSE p \in S : Cardinality({q \in S : q <= p}) = k

\* the whitespace-delimited tokens of s, in order
Tokens(s) ==
    [k \in 1..Cardinality(TokenStarts(s)) |->
        SubSeq(s, Kth(TokenStarts(s), k), Kth(TokenEnds(s), k))]

\* s is made of tokens separated by exactly one space each
SingleSpaced(s) ==
    /\ s = <<>> \/ (~is_whitespace(s[1]) /\ ~is_whitespace(s[Len(s)]))
    /\ \A i \in 1..Len(s) : is_whitespace(s[i]) => s[i] = " " /\ ~is_whitespace(s[i + 1])

\* the physical lines of a text: the pieces ended by "\n", and the rest
\* after the last "\n" when it is not empty
NewlinePos(t) == {i \in 1..Len(t) : t[i] = "\n"}
NumLines(t) ==
    Cardinality(NewlinePos(t)) + (IF t # <<>> /\ t[Len(t)] # "\n" THEN 1 ELSE 0)
PhysLine(t, k) ==
    LET from == IF k = 1 THEN 1 ELSE Kth(NewlinePos(t), k - 1) + 1
        to == IF k <= Cardinality(NewlinePos(t)) THEN Kth(NewlinePos(t), k) - 1 ELSE Len(t)
    IN SubSeq(t, from, to)

\* the three kinds of line record
IsEmptyKind(r) == r.is_empty /\ r.ip = None /\ r.hosts = None /\ r.comment = None
IsCommentKind(r) == ~r.is_empty /\ is_some(r.comment) /\ r.ip = None /\ hosts(r) = <<>>
IsHostKind(r) == ~r.is_empty /\ is_some(r.ip) /\ hosts(r) # <<>>

\* the rendering of a record, by kind
RenderByKind(r) ==
    IF IsEmptyKind(r) THEN <<>>
    ELSE IF IsCommentKind(r) THEN unwrap(r.comment)
    ELSE LET toks == <<unwrap(r.ip)>> \o hosts(r) \o r.comment
         IN join(toks, <<" ">>)

----------------------------------------------------------------------------
(* Properties *)

\* canonical form of a text: exactly one trailing newline, no leading or
\* trailing whitespace on a line, single spaces between the tokens of a
\* host line
IsCanonical(t) ==
    /\ t # <<>> /\ t[Len(t)] = "\n"
    /\ Len(t) >= 2 => t[Len(t) - 1] # "\n"
    /\ \A k \in 1..NumLines(t) :
          LET l == PhysLine(t, k) IN
          /\ l = Trimmed(l)
          /\ (l # <<>> /\ l[1] # "#") => SingleSpaced(l)

\* C1: serializing the document parsed from a canonical text gives the text
\* back, character for character
C1_RoundTrip ==
    (pc = "serialized" /\ IsCanonical(text)) => out = text

C1_Witness ==
    /\ pc = "serialized"
    /\ IsCanonical(text)
    /\ out = text
    /\ Len(doc.val.lines) >= 2
    /\ \E i \in 1..Len(doc.val.lines) : IsHostKind(doc.val.lines[i])

\* the line has an address token but no hostname token after it
NoHostname(s) ==
    /\ ~AllWhitespace(s)
    /\ ~StartsWithHash(s)
    /\ \/ Cardinality(TokenStarts(s)) < 2
       \/ s[Kth(TokenStarts(s), 2)] = "#"

\* C2: from_string fails exactly on the non-blank, non-comment lines whose
\* second token is missing or starts with '#', always through the
\* no-hostnames failure and never through the missing-first-token one
C2_FailsExactlyWithoutHostname ==
    (pc = "line" /\ ctor = "from_string") =>
        /\ ~line.ok <=> NoHostname(text)
        /\ ~line.ok => line.site = 90

C2_Witness ==
    /\ pc = "line" /\ ctor = "from_string"
    /\ ~line.ok
    /\ Cardinality(TokenStarts(text)) >= 3
    /\ text[Kth(TokenStarts(text), 2)] = "#"

\* C3: the document parse fails exactly when some physical line fails to
\* parse, and a failure carries the error alone, wherever the line is
C3_FailFast ==
    pc = "doc" =>
        /\ ~doc.ok <=> \E k \in 1..NumLines(text) :
                          ~HostsFileLine_from_string(PhysLine(text, k)).ok
        /\ ~doc.ok => DOMAIN doc = {"ok", "site"}

C3_Witness ==
    /\ pc = "doc"
    /\ ~doc.ok
    /\ NumLines(text) = 3
    /\ HostsFileLine_from_string(PhysLine(text, 1)).ok
    /\ ~HostsFileLine_from_string(PhysLine(text, 1)).val.is_empty
    /\ ~HostsFileLine_from_string(PhysLine(text, 2)).ok
    /\ HostsFileLine_from_string(PhysLine(text, 3)).ok

\* C4: in a Host record the address is the first token, the hostnames are
\* the longest run of following tokens that do not start with '#', and the
\* comment is the remaining tokens joined by single spaces (absent when
\* there are none); a '#' inside a token does not start a comment
C4_HostFields ==
    (pc = "line" /\ ctor = "from_string" /\ line.ok /\ has_host(line.val)) =>
        LET toks == Tokens(text)
            r == line.val
            k == Len(hosts(r))
        IN /\ ip(r) = Some(toks[1])
           /\ k + 1 <= Len(toks)
           /\ \A i \in 1..k : hosts(r)[i] = toks[i + 1] /\ toks[i + 1][1] # "#"
           /\ k + 1 < Len(toks) => toks[k + 2][1] = "#"
           /\ has_comment(r) <=> k + 1 < Len(toks)
           /\ has_comment(r) =>
                 /\ SingleSpaced(unwrap(comment(r)))
                 /\ Tokens(unwrap(comment(r))) = SubSeq(toks, k + 2, Len(toks))

C4_Witness ==
    /\ pc = "line" /\ ctor = "from_string" /\ line.ok /\ has_host(line.val)
    /\ \E i \in 1..Len(hosts(line.val)) :
          \E j \in 2..Len(hosts(line.val)[i]) : hosts(line.val)[i][j] = "#"
    /\ has_comment(line.val)
    /\ Len(Tokens(unwrap(comment(line.val)))) >= 2

\* C5: a blank line parses to the Empty record and renders to the empty
\* string; a line whose first non-whitespace character is '#' parses to a
\* Comment record holding the whole trimmed line, never to a Host record
C5_Classification ==
    (pc \in {"line", "rendered"} /\ ctor = "from_string") =>
        /\ AllWhitespace(text) =>
              /\ line = Ok(from_empty)
              /\ pc = "rendered" => out = <<>>
        /\ StartsWithHash(text) =>
              /\ line = Ok([is_empty |-> FALSE, comment |-> Some(Trimmed(text)),
                            ip |-> None, hosts |-> None])
              /\ ~has_host(line.val)

C5_Witness ==
    /\ pc = "line" /\ ctor = "from_string"
    /\ StartsWithHash(text)
    /\ line.ok /\ has_comment(line.val)
    /\ Len(unwrap(comment(line.val))) < Len(text)
    /\ Len(Tokens(text)) >= 3
    /\ ~SingleSpaced(unwrap(comment(line.val)))

\* C6: a parsed document has one record per physical line, in order, each
\* equal to the parse of that line alone; a final newline adds no record
\* and the empty text gives no record
C6_OneRecordPerLine ==
    (pc = "doc" /\ doc.ok) =>
        /\ Len(doc.val.lines) = NumLines(text)
        /\ \A k \in 1..NumLines(text) :
              Ok(doc.val.lines[k]) = HostsFileLine_from_string(PhysLine(text, k))
        /\ text = <<>> => doc.val.lines = <<>>

C6_Witness ==
    /\ pc = "doc" /\ doc.ok
    /\ Len(doc.val.lines) = 2
    /\ text[Len(text)] = "\n"
    /\ IsHostKind(doc.val.lines[1])
    /\ IsCommentKind(doc.val.lines[2])

\* C7: serialize gives the records' renderings, each followed by one
\* newline: n >= 1 records give exactly n newlines, no record gives "\n"
C7_Serialize ==
    pc = "serialized" =>
        LET n == Len(doc.val.lines) IN
        /\ out # <<>> /\ out[Len(out)] = "\n"
        /\ n >= 1 => Cardinality(NewlinePos(out)) = n
        /\ n = 0 => out = <<"\n">>
        /\ \A k \in 1..n : PhysLine(out, k) = RenderByKind(doc.val.lines[k])

C7_Witness ==
    /\ pc = "serialized"
    /\ Len(doc.val.lines) >= 1
    /\ \E k \in 1..Len(doc.val.lines) :
          IsHostKind(doc.val.lines[k]) /\ has_comment(doc.val.lines[k])

\* C8: a record made by from_string, from_empty or from_comment is of
\* exactly one of the kinds Empty, Comment and Host; has_host holds exactly
\* for Host records, whose hostnames are not empty
C8_ExactlyOneKind ==
    (pc \in {"line", "rendered"} /\ line.ok) =>
        LET r == line.val IN
        /\ Cardinality({kind \in {"Empty", "Comment", "Host"} :
              \/ kind = "Empty" /\ IsEmptyKind(r)
              \/ kind = "Comment" /\ IsCommentKind(r)
              \/ kind = "Host" /\ IsHostKind(r)}) = 1
        /\ has_host(r) <=> IsHostKind(r)
        /\ has_host(r) => hosts(r) # <<>>

C8_Witness ==
    /\ pc = "line" /\ line.ok
    /\ ctor = "from_string"
    /\ IsHostKind(line.val) /\ has_comment(line.val)

\* the line with its surrounding whitespace removed and, for a host line,
\* every run of whitespace between tokens replaced by one space
Normalized(s) ==
    IF AllWhitespace(s) \/ StartsWithHash(s) THEN Trimmed(s)
    ELSE join(Tokens(s), <<" ">>)

\* C9: a line that parses gives the same record as its normalized form,
\* and a host line renders to its normalized form
C9_WhitespaceNormalization ==
    (pc \in {"line", "rendered"} /\ ctor = "from_string" /\ line.ok) =>
        /\ HostsFileLine_from_string(Normalized(text)) = line
        /\ (pc = "rendered" /\ has_host(line.val)) => out = Normalized(text)

C9_Witness ==
    /\ pc = "rendered" /\ ctor = "from_string" /\ line.ok
    /\ has_host(line.val) /\ has_comment(line.val)
    /\ out = Normalized(text)
    /\ Len(out) + 2 <= Len(Trimmed(text))

\* C10: the serialized text of a parsed document with at least one record
\* parses again, to an equal document
C10_ReverseRoundTrip ==
    (pc = "reparsed" /\ Len(doc.val.lines) >= 1) => doc2 = doc

C10_Witness ==
    /\ pc = "reparsed"
    /\ Len(doc.val.lines) >= 2
    /\ doc2 = doc
    /\ out # text
    /\ \E k \in 1..Len(doc.val.lines) : IsHostKind(doc.val.lines[k])

====
